---------------------------- MODULE Spec2Model ----------------------------
(***************************************************************************)
(* Boundary-tag, best-fit allocator of src/myalloc.c.                      *)
(*                                                                         *)
(* The memory pool is modelled byte by byte: `heap` maps every address of  *)
(* the pool to the byte stored there, and a tag word (an int) is the four  *)
(* little-endian two's-complement bytes starting at its address.  Block    *)
(* boundaries are byte addresses, as in the code, which does pointer       *)
(* arithmetic on unsigned char * and so places tag words at any byte       *)
(* offset when a request size is not a multiple of sizeof(int).            *)
(***************************************************************************)
EXTENDS Integers, Sequences, FiniteSets, TLC

VARIABLES
    MEMORY_SIZE,  \* int MEMORY_SIZE: the capacity the caller chose
    mem,          \* unsigned char *mem: address of the first byte of the pool
    end,          \* static int *end: address one past the last byte of the pool
    heap,         \* the bytes mem points to: [mem .. end-1 -> 0..255]
    live,         \* the caller's pointers: payload pointer -> requested size
    last,         \* the last call made: its name, argument and result, the
                  \* bytes and the caller's pointers before it, and whether
                  \* it freed the pointer the call before it returned
    calls,        \* how many calls of myalloc and myfree were made
    thread,       \* per thread: where it is in myalloc, and myalloc's locals
    lock          \* the callers' lock: whether they use one, and who holds it

vars == <<MEMORY_SIZE, mem, end, heap, live, last, calls, thread, lock>>

(***************************************************************************)
(* Bounds of the model.                                                    *)
(***************************************************************************)
\* The capacity the caller sets MEMORY_SIZE to before init_myalloc.
Capacity == 35
\* Request sizes passed to myalloc are 1 .. MaxRequest.
MaxRequest == 4
\* The caller makes at most MaxCalls calls of myalloc and myfree.
MaxCalls == 6
\* The address malloc returns for the pool (any non-null address).
PoolAddress == 4

\* sizeof(int)
WordSize == 4

\* The null pointer: get_next_header's "no next block", myalloc's failure.
NULL == 0

\* What malloc's uninitialised bytes may hold: a byte pattern that reads as a
\* large positive int (a free tag), or one that reads as -1 (an allocated tag).
Garbage == {1, 255}

(***************************************************************************)
(* int <-> bytes: 32-bit two's complement, little endian.                  *)
(***************************************************************************)
IntBytes(v) ==
    <<v % 256, (v \div 256) % 256, (v \div 65536) % 256, (v \div 16777216) % 256>>

BytesInt(b) ==
    b[1] + 256 * b[2] + 65536 * b[3]
      + 16777216 * (IF b[4] >= 128 THEN b[4] - 256 ELSE b[4])

\* One byte of the pool.  An address outside the pool is not memory of the
\* allocator; no call made within its preconditions reads one.
LoadByte(hp, a) == IF a \in DOMAIN hp THEN hp[a] ELSE 0

\* *(int *) a
Load(hp, a) ==
    BytesInt(<<LoadByte(hp, a), LoadByte(hp, a + 1),
               LoadByte(hp, a + 2), LoadByte(hp, a + 3)>>)

\* *(int *) a = v
Store(hp, a, v) ==
    LET b == IntBytes(v)
    IN  [x \in DOMAIN hp |->
            IF x >= a /\ x < a + WordSize THEN b[x - a + 1] ELSE hp[x]]

\* abs() of <stdlib.h>
abs(x) == IF x < 0 THEN -x ELSE x

\* a + b in int arithmetic, wrapping modulo 2^32 (b >= 0).
IntAdd(a, b) ==
    IF a > 2147483647 - b
    THEN (a - 2147483647 - 1) + (b - 2147483647 - 1)
    ELSE a + b

(***************************************************************************)
(* Block navigation.                                                       *)
(***************************************************************************)
get_header(hp, footer) == footer - abs(Load(hp, footer)) + WordSize

get_footer(hp, header) == header + abs(Load(hp, header)) - WordSize

\* Mutant: the end of the pool itself is taken for a header.
get_next_header_PastEnd(hp, header) ==
    LET next == header + abs(Load(hp, header))
    IN  IF next > end THEN NULL ELSE next

get_next_header(hp, header) ==
    LET next == header + abs(Load(hp, header))
    IN  IF next >= end THEN NULL ELSE next

(***************************************************************************)
(* best_fit_block: the loop `while (header != 0)`, with `result` carried.  *)
(***************************************************************************)
\* Mutants of the eligibility test: the footer's word forgotten, the block's
\* state not tested, the block's size not tested.
Eligible_OneTag(hp, header, size) ==
    abs(Load(hp, header)) >= IntAdd(size, 4) /\ Load(hp, header) > 0

Eligible_AnyState(hp, header, size) ==
    abs(Load(hp, header)) >= IntAdd(size, 8)

Eligible_AnySize(hp, header, size) == Load(hp, header) > 0

\* Mutants: a block of exactly size + 8 bytes refused; no room for tags.
Eligible_Strict(hp, header, size) ==
    abs(Load(hp, header)) > IntAdd(size, 8) /\ Load(hp, header) > 0

Eligible_NoTags(hp, header, size) ==
    abs(Load(hp, header)) >= size /\ Load(hp, header) > 0

\* (abs(*header) >= size + 8) && (*header > 0)
Eligible(hp, header, size) ==
    abs(Load(hp, header)) >= IntAdd(size, 8) /\ Load(hp, header) > 0

\* Mutant: the first eligible block is kept (first fit).
Smaller_Never(hp, header, result) == FALSE

\* Mutant: a block of equal size replaces the one kept.
Smaller_OrEqual(hp, header, result) ==
    abs(Load(hp, header)) <= abs(Load(hp, result))

\* abs(*header) < abs(*result)
Smaller(hp, header, result) == abs(Load(hp, header)) < abs(Load(hp, result))

RECURSIVE best_fit_loop(_, _, _, _)
best_fit_loop(hp, size, header, result) ==
    IF header = NULL THEN result
    ELSE LET r == IF Eligible(hp, header, size)
                     /\ (result = NULL \/ Smaller(hp, header, result))
                  THEN header ELSE result
         IN  best_fit_loop(hp, size, get_next_header(hp, header), r)

best_fit_block(hp, size) == best_fit_loop(hp, size, mem, NULL)

(***************************************************************************)
(* myalloc: the new bytes of the pool and the pointer returned.            *)
(***************************************************************************)
\* Mutants of the split test: a strict comparison, and one word too few.
SplitTest_Strict(hp, header, size) ==
    abs(Load(hp, header)) - 4 * WordSize > size

SplitTest_ThreeWords(hp, header, size) ==
    abs(Load(hp, header)) - 3 * WordSize >= size

\* abs(*header) >= size + 4 * sizeof(int), compared in size_t
SplitTest(hp, header, size) == abs(Load(hp, header)) - 4 * WordSize >= size

\* Mutant: the allocated block's two tag words are not taken off.
Remainder_NoTags(orig_size, size) == orig_size - size

\* orig_size - (size + 2 * sizeof(int))
Remainder(orig_size, size) == orig_size - (size + 2 * WordSize)

\* Mutant: the remainder's footer is not written.
myalloc_split_NoFooter(hp, header, size) ==
    LET orig_size == abs(Load(hp, header))
        hp1 == Store(hp, header, -(size + 2 * WordSize))
        f1  == get_footer(hp1, header)
        hp2 == Store(hp1, f1, -(size + 2 * WordSize))
    IN  Store(hp2, f1 + WordSize, Remainder(orig_size, size))

myalloc_split(hp, header, size) ==
    LET orig_size == abs(Load(hp, header))
        hp1 == Store(hp, header, -(size + 2 * WordSize))
        f1  == get_footer(hp1, header)
        hp2 == Store(hp1, f1, -(size + 2 * WordSize))
        h2  == f1 + WordSize
        hp3 == Store(hp2, h2, Remainder(orig_size, size))
        f2  == get_footer(hp3, h2)
    IN  Store(hp3, f2, Remainder(orig_size, size))

\* Mutant: the footer is left as it was.
myalloc_nosplit_HeaderOnly(hp, header) ==
    Store(hp, header, -Load(hp, header))

myalloc_nosplit(hp, header) ==
    LET hp1 == Store(hp, header, -Load(hp, header))
        f1  == get_footer(hp1, header)
    IN  Store(hp1, f1, -Load(hp1, f1))

myalloc(hp, size) ==
    LET header == best_fit_block(hp, size)
    IN  IF header = NULL
        THEN [heap |-> hp, result |-> NULL]
        ELSE [heap   |-> IF SplitTest(hp, header, size)
                         THEN myalloc_split(hp, header, size)
                         ELSE myalloc_nosplit(hp, header),
              result |-> header + WordSize]

(***************************************************************************)
(* myfree and the two coalescing steps.                                    *)
(***************************************************************************)
\* Mutant: the merged block's footer keeps the freed block's size.
back_coalesce_HeaderOnly(hp, header) ==
    LET right == Load(hp, header)
        h2    == get_header(hp, header - WordSize)
        hp1   == Store(hp, h2, Load(hp, h2) + right)
    IN  [heap |-> hp1, result |-> h2]

\* The bytes after back_coalesce, and the pointer it returns.
back_coalesce(hp, header) ==
    LET right == Load(hp, header)
        h1    == header - WordSize
        left  == Load(hp, h1)
        h2    == get_header(hp, h1)
        hp1   == Store(hp, h2, Load(hp, h2) + right)
        h3    == get_footer(hp1, h2)
        hp2   == Store(hp1, h3, Load(hp1, h3) + left)
    IN  [heap |-> hp2, result |-> get_header(hp2, h3)]

\* Mutant: the merged block's footer is not updated.
fwd_coalesce_HeaderOnly(hp, header) ==
    LET h1    == get_next_header(hp, header)
        right == Load(hp, h1)
        h3    == get_header(hp, h1 - WordSize)
    IN  Store(hp, h3, Load(hp, h3) + right)

fwd_coalesce(hp, header) ==
    LET left  == Load(hp, header)
        h1    == get_next_header(hp, header)
        right == Load(hp, h1)
        h2    == h1 - WordSize
        h3    == get_header(hp, h2)
        hp1   == Store(hp, h3, Load(hp, h3) + right)
        h4    == get_footer(hp1, h3)
    IN  Store(hp1, h4, Load(hp1, h4) + left)

\* Mutants: the left, the right neighbour is never merged.
LeftIsFree_Never(hp, newptr) == FALSE

RightIsFree_Never(hp, newptr) == FALSE

\* Mutant: the block is never taken to be the first of the pool.
NotFirst_Always(newptr) == TRUE

\* newptr != (int *) mem
NotFirst(newptr) == newptr # mem

\* newptr != mem, and the word before newptr is positive
LeftIsFree(hp, newptr) == NotFirst(newptr) /\ Load(hp, newptr - WordSize) > 0

\* newptr != 0, and *newptr is positive
RightIsFree(hp, newptr) == newptr # NULL /\ Load(hp, newptr) > 0

myfree(hp, oldptr) ==
    LET p1  == oldptr - WordSize
        hp1 == Store(hp, p1, -Load(hp, p1))
        p2  == get_footer(hp1, p1)
        hp2 == Store(hp1, p2, -Load(hp1, p2))
        p3  == get_header(hp2, p2)
        bc  == IF LeftIsFree(hp2, p3)
               THEN back_coalesce(hp2, p3)
               ELSE [heap |-> hp2, result |-> p3]
        hp3 == bc.heap
        p4  == get_next_header(hp3, bc.result)
    IN  IF RightIsFree(hp3, p4)
        THEN fwd_coalesce(hp3, get_header(hp3, p4 - WordSize))
        ELSE hp3

(***************************************************************************)
(* The state machine: init_myalloc once, then any calls of myalloc with a  *)
(* positive size and of myfree on a pointer the caller holds.              *)
(***************************************************************************)
\* The pool after init_myalloc: one free block spanning it.
init_myalloc(base, capacity, fill) ==
    LET raw == [a \in base .. base + capacity - 1 |-> fill]
        hp1 == Store(raw, base, capacity)
    IN  Store(hp1, base + capacity - WordSize, capacity)

\* The threads that call the allocator, and a thread outside any call.
Threads == {1, 2}

Idle ==
    [pc |-> "idle", size |-> 0, header |-> NULL, result |-> NULL,
     old_header |-> NULL, orig_size |-> 0, v |-> 0, ret |-> NULL]

InitPool ==
    /\ MEMORY_SIZE = Capacity
    /\ mem = PoolAddress
    /\ end = mem + MEMORY_SIZE
    /\ \E fill \in Garbage : heap = init_myalloc(mem, MEMORY_SIZE, fill)
    /\ live = <<>>
    /\ last = [op |-> "init_myalloc", arg |-> MEMORY_SIZE, result |-> NULL,
               heap |-> heap, live |-> live, fresh |-> FALSE]
    /\ calls = 0
    /\ thread = [t \in Threads |-> Idle]

\* One caller, whose calls run one after the other: no lock is needed.
Init == InitPool /\ lock = [used |-> FALSE, owner |-> 0]

Allocate(size) ==
    LET r == myalloc(heap, size)
    IN  /\ calls < MaxCalls
        /\ calls' = calls + 1
        /\ heap' = r.heap
        /\ live' = IF r.result = NULL THEN live
                   ELSE [p \in DOMAIN live \cup {r.result} |->
                            IF p = r.result THEN size ELSE live[p]]
        /\ last' = [op |-> "myalloc", arg |-> size, result |-> r.result,
                    heap |-> heap, live |-> live, fresh |-> FALSE]
        /\ UNCHANGED <<MEMORY_SIZE, mem, end, thread, lock>>

Free(oldptr) ==
    /\ oldptr \in DOMAIN live
    /\ calls < MaxCalls
    /\ calls' = calls + 1
    /\ heap' = myfree(heap, oldptr)
    /\ live' = [p \in DOMAIN live \ {oldptr} |-> live[p]]
    /\ last' = [op |-> "myfree", arg |-> oldptr, result |-> NULL,
                heap |-> heap, live |-> live,
                fresh |-> (last.op = "myalloc" /\ last.result = oldptr)]
    /\ UNCHANGED <<MEMORY_SIZE, mem, end, thread, lock>>

Next ==
    \/ \E size \in 1 .. MaxRequest : Allocate(size)
    \/ \E oldptr \in DOMAIN live : Free(oldptr)

Spec == Init /\ [][Next]_vars

(***************************************************************************)
(* The same calls, and myalloc with the largest values an int size can     *)
(* take: INT_MAX - 8, the last for which size + 8 is an int, and beyond.   *)
(***************************************************************************)
INT_MAX == 2147483647

HugeRequests == {INT_MAX - 8, INT_MAX - 7, INT_MAX}

NextHuge ==
    \/ \E size \in 1 .. MaxRequest : Allocate(size)
    \/ \E size \in HugeRequests : Allocate(size)
    \/ \E oldptr \in DOMAIN live : Free(oldptr)

SpecHuge == Init /\ [][NextHuge]_vars

(***************************************************************************)
(* The block list: the headers met walking the pool from mem by            *)
(* get_next_header, as best_fit_block's loop does.  The walk is cut after  *)
(* MEMORY_SIZE blocks, more than a pool of MEMORY_SIZE bytes can hold.     *)
(***************************************************************************)
RECURSIVE WalkFrom(_, _, _)
WalkFrom(hp, header, n) ==
    IF header = NULL \/ n = 0 THEN <<>>
    ELSE <<header>> \o WalkFrom(hp, get_next_header(hp, header), n - 1)

Blocks(hp) == WalkFrom(hp, mem, MEMORY_SIZE)

\* The block list as (header address, header word, footer word) triples.
Layout(hp) ==
    LET W == Blocks(hp)
    IN  [i \in 1 .. Len(W) |->
            <<W[i], Load(hp, W[i]), Load(hp, get_footer(hp, W[i]))>>]

IsHeader(hp, a) == \E i \in 1 .. Len(Blocks(hp)) : Blocks(hp)[i] = a

RECURSIVE SumSizes(_, _, _)
SumSizes(hp, W, i) ==
    IF i > Len(W) THEN 0 ELSE abs(Load(hp, W[i])) + SumSizes(hp, W, i + 1)

\* The free blocks of hp that can serve a request of `size` bytes: those of
\* at least size + 2 words, in unbounded arithmetic.
Candidates(hp, size) ==
    {h \in {Blocks(hp)[i] : i \in 1 .. Len(Blocks(hp))} :
        Load(hp, h) > 0 /\ Load(hp, h) - 2 * WordSize >= size}

Allocated == last.op = "myalloc" /\ last.result # NULL
Failed == last.op = "myalloc" /\ last.result = NULL
Freed == last.op = "myfree"

(***************************************************************************)
(* C1  Conservation / exact tiling: walking the pool from mem by           *)
(* get_next_header, every block has a strictly positive size, each block   *)
(* starts where the one before it ends, the last block ends exactly at     *)
(* end, and the size magnitudes sum to MEMORY_SIZE.                        *)
(***************************************************************************)
C1_Tiling ==
    LET W == Blocks(heap)
        n == Len(W)
    IN  /\ n >= 1
        /\ W[1] = mem
        /\ \A i \in 1 .. n : abs(Load(heap, W[i])) > 0
        /\ \A i \in 1 .. n - 1 : W[i + 1] = W[i] + abs(Load(heap, W[i]))
        /\ W[n] + abs(Load(heap, W[n])) = end
        /\ SumSizes(heap, W, 1) = MEMORY_SIZE

\* A free has just merged blocks while three or more blocks tile the pool.
C1_Witness ==
    /\ Freed
    /\ Len(Blocks(heap)) >= 3
    /\ Len(Blocks(heap)) < Len(Blocks(last.heap))

(***************************************************************************)
(* C2  A pointer myalloc returns is the header address of a block plus one *)
(* word; that block's header and footer are negative (allocated) and its   *)
(* payload, the size less two tag words, is at least the requested size.   *)
(***************************************************************************)
C2_AllocResult ==
    Allocated =>
        LET h == last.result - WordSize
        IN  /\ IsHeader(heap, h)
            /\ Load(heap, h) < 0
            /\ Load(heap, get_footer(heap, h)) < 0
            /\ abs(Load(heap, h)) - 2 * WordSize >= last.arg

\* An allocation served without a split, from a block with bytes to spare.
C2_Witness ==
    /\ Allocated
    /\ Len(Blocks(heap)) = Len(Blocks(last.heap))
    /\ abs(Load(heap, last.result - WordSize)) - 2 * WordSize > last.arg

(***************************************************************************)
(* C3  Blocks are never relocated: across every call, each pointer the     *)
(* caller holds before and after it still addresses a block of the list,   *)
(* with the same negative header and the same negative footer.             *)
(***************************************************************************)
Kept(p) ==
    LET h == p - WordSize
    IN  /\ IsHeader(heap, h) /\ IsHeader(heap', h)
        /\ Load(heap', h) = Load(heap, h)
        /\ Load(heap', h) < 0
        /\ get_footer(heap', h) = get_footer(heap, h)
        /\ Load(heap', get_footer(heap', h)) = Load(heap, h)
        /\ Load(heap, get_footer(heap, h)) = Load(heap, h)

C3_NeverRelocated ==
    [][\A p \in DOMAIN live \cap DOMAIN live' : Kept(p)]_vars

\* A block freed next to one the caller still holds, and merged away from it.
C3_Witness ==
    /\ Freed
    /\ Len(Blocks(heap)) < Len(Blocks(last.heap))
    /\ \E p \in DOMAIN live :
          /\ p \in DOMAIN last.live
          /\ get_next_header(last.heap, last.arg - WordSize) = p - WordSize

(***************************************************************************)
(* C4  No two address-adjacent blocks are both free.                       *)
(***************************************************************************)
C4_NoAdjacentFree ==
    LET W == Blocks(heap)
    IN  \A i \in 1 .. Len(W) - 1 :
            ~(Load(heap, W[i]) > 0 /\ Load(heap, W[i + 1]) > 0)

\* A block was freed whose left and right neighbours were both free.
C4_Witness ==
    /\ Freed
    /\ Len(Blocks(heap)) = Len(Blocks(last.heap)) - 2

(***************************************************************************)
(* C5  Round trip to empty: once every pointer returned has been freed,    *)
(* the pool is one free block of MEMORY_SIZE bytes, header and footer      *)
(* both +MEMORY_SIZE, as after init_myalloc.                               *)
(***************************************************************************)
C5_RoundTrip ==
    (calls > 0 /\ live = <<>>) =>
        /\ Layout(heap) = <<<<mem, MEMORY_SIZE, MEMORY_SIZE>>>>
        /\ Load(heap, end - WordSize) = MEMORY_SIZE

\* Three blocks were allocated, and the middle one was freed last.
C5_Witness ==
    /\ Freed
    /\ live = <<>>
    /\ Len(Blocks(last.heap)) = 3
    /\ IsHeader(last.heap, last.arg - WordSize)
    /\ last.arg - WordSize # mem
    /\ get_next_header(last.heap, last.arg - WordSize) # NULL

(***************************************************************************)
(* C6  Exhaustion: when no block of the pool passes the scan's test (free, *)
(* and of at least size + 8 as the int sum comes out), myalloc returns the *)
(* null pointer and every byte of the pool, hence every header and footer, *)
(* is as it was before the call.                                           *)
(***************************************************************************)
NoneFound(hp, size) ==
    \A i \in 1 .. Len(Blocks(hp)) :
        LET tag == Load(hp, Blocks(hp)[i])
        IN  tag <= 0 \/ tag < IntAdd(size, 2 * WordSize)

C6_ExhaustionUnchanged ==
    /\ (last.op = "myalloc" /\ NoneFound(last.heap, last.arg)) =>
           (last.result = NULL /\ heap = last.heap /\ live = last.live)
    /\ Failed => (NoneFound(last.heap, last.arg) /\ heap = last.heap)

\* A request failed although the pool holds a free block (a smaller one).
C6_Witness ==
    /\ Failed
    /\ \E i \in 1 .. Len(Blocks(heap)) : Load(heap, Blocks(heap)[i]) > 0

(***************************************************************************)
(* C7  Best fit: the block a successful myalloc takes was, before the      *)
(* call, free and of at least size + 2 words, and no other free block of   *)
(* at least size + 2 words was strictly smaller.                           *)
(***************************************************************************)
C7_BestFit ==
    Allocated =>
        LET h == last.result - WordSize
        IN  /\ h \in Candidates(last.heap, last.arg)
            /\ \A g \in Candidates(last.heap, last.arg) :
                   Load(last.heap, g) >= Load(last.heap, h)

\* The block taken lies after a strictly larger free block that also fits.
C7_Witness ==
    /\ Allocated
    /\ \E g \in Candidates(last.heap, last.arg) :
          /\ g < last.result - WordSize
          /\ Load(last.heap, g) > Load(last.heap, last.result - WordSize)

(***************************************************************************)
(* C8  Split threshold: with orig the size of the block taken, myalloc     *)
(* splits it in two if and only if orig >= size + 4 words; otherwise the   *)
(* block is allocated in place, header and footer negated, its size and    *)
(* the number of blocks unchanged.                                         *)
(***************************************************************************)
SplitDone ==
    LET h    == last.result - WordSize
        orig == Load(last.heap, h)
    IN  /\ Len(Blocks(heap)) = Len(Blocks(last.heap)) + 1
        /\ abs(Load(heap, h)) < orig
        /\ get_next_header(heap, h) # NULL
        /\ get_next_header(heap, h) < h + orig

InPlace ==
    LET h    == last.result - WordSize
        orig == Load(last.heap, h)
    IN  /\ Len(Blocks(heap)) = Len(Blocks(last.heap))
        /\ Load(heap, h) = -orig
        /\ Load(heap, h + orig - WordSize) = -orig

C8_SplitThreshold ==
    Allocated =>
        LET orig == Load(last.heap, last.result - WordSize)
        IN  /\ SplitDone <=> orig >= last.arg + 4 * WordSize
            /\ InPlace <=> orig < last.arg + 4 * WordSize

\* A block of size + 3 words was taken, and allocated in place.
C8_Witness ==
    /\ Allocated
    /\ Load(last.heap, last.result - WordSize) = last.arg + 3 * WordSize
    /\ InPlace

(***************************************************************************)
(* C9  myalloc then myfree of the pointer it returned restores the block   *)
(* list (addresses, header and footer words) the pool had before myalloc.  *)
(***************************************************************************)
C9_AllocFreeIdentity ==
    [][(Allocated /\ last'.op = "myfree" /\ last'.arg = last.result)
          => Layout(heap') = Layout(last.heap)]_vars

\* A pointer was freed right after the split that produced it, in a pool
\* that holds other blocks.
C9_Witness ==
    /\ Freed
    /\ last.fresh
    /\ Len(Blocks(heap)) >= 2
    /\ Len(Blocks(last.heap)) = Len(Blocks(heap)) + 1

(***************************************************************************)
(* C10  As claimed: every block of the pool is at least three words long   *)
(* (two tag words and a payload word).                                     *)
(***************************************************************************)
C10_MinBlockThreeWords ==
    \A i \in 1 .. Len(Blocks(heap)) :
        abs(Load(heap, Blocks(heap)[i])) >= 3 * WordSize

(***************************************************************************)
(* C10, amended  Every block of the pool is at least two words long (its   *)
(* header and its footer), and so is the remainder a split creates.        *)
(***************************************************************************)
C10_MinBlockTwoWords ==
    /\ \A i \in 1 .. Len(Blocks(heap)) :
           abs(Load(heap, Blocks(heap)[i])) >= 2 * WordSize
    /\ (Allocated /\ SplitDone) =>
           Load(heap, get_next_header(heap, last.result - WordSize))
               >= 2 * WordSize

\* A split has left a remainder of exactly two words: no payload at all.
C10_Witness ==
    /\ Allocated
    /\ SplitDone
    /\ Load(heap, get_next_header(heap, last.result - WordSize)) = 2 * WordSize

(***************************************************************************)
(* C11  Mirrored tags: for every block of the pool, the footer word at     *)
(* header + |header word| - one word holds the same signed value as the    *)
(* header word.                                                            *)
(***************************************************************************)
C11_MirroredTags ==
    \A i \in 1 .. Len(Blocks(heap)) :
        LET h == Blocks(heap)[i]
        IN  Load(heap, h + abs(Load(heap, h)) - WordSize) = Load(heap, h)

\* A freed block was absorbed by its left neighbour alone: a header and a
\* footer written by different calls now delimit one block.
C11_Witness ==
    /\ Freed
    /\ Len(Blocks(heap)) = Len(Blocks(last.heap)) - 1
    /\ ~IsHeader(heap, last.arg - WordSize)
    /\ Len(Blocks(heap)) >= 2

(***************************************************************************)
(* The addresses of the words each function reads or writes, statement by  *)
(* statement, on the bytes hp it is called with.                           *)
(***************************************************************************)
\* best_fit_block: *header (and *result, an earlier header) per iteration,
\* and *header again in get_next_header.
best_fit_block_words(hp) == {Blocks(hp)[i] : i \in 1 .. Len(Blocks(hp))}

myalloc_words(hp, size) ==
    LET header == best_fit_block(hp, size)
        split  == myalloc_split(hp, header, size)
        f1s    == header + size + WordSize
        h2     == f1s + WordSize
        f2     == get_footer(split, h2)
        f1n    == get_footer(hp, header)
    IN  best_fit_block_words(hp)
          \cup (IF header = NULL THEN {}
                ELSE IF SplitTest(hp, header, size)
                     THEN {header, f1s, h2, f2}
                     ELSE {header, f1n})

back_coalesce_words(hp, header) ==
    LET h1 == header - WordSize
        h2 == get_header(hp, h1)
        h3 == get_footer(back_coalesce(hp, header).heap, h2)
    IN  {header, h1, h2, h3}

fwd_coalesce_words(hp, header) ==
    LET h1 == get_next_header(hp, header)
        h2 == h1 - WordSize
        h3 == get_header(hp, h2)
        h4 == get_footer(fwd_coalesce(hp, header), h3)
    IN  {header, h1, h2, h3, h4}

myfree_words(hp, oldptr) ==
    LET p1  == oldptr - WordSize
        hp1 == Store(hp, p1, -Load(hp, p1))
        p2  == get_footer(hp1, p1)
        hp2 == Store(hp1, p2, -Load(hp1, p2))
        p3  == get_header(hp2, p2)
        bc  == IF LeftIsFree(hp2, p3)
               THEN back_coalesce(hp2, p3)
               ELSE [heap |-> hp2, result |-> p3]
        hp3 == bc.heap
        p4  == get_next_header(hp3, bc.result)
    IN  {p1, p2, p3}
          \cup (IF NotFirst(p3) THEN {p3 - WordSize} ELSE {})
          \cup (IF LeftIsFree(hp2, p3)
                THEN back_coalesce_words(hp2, p3) ELSE {})
          \cup {bc.result}
          \cup (IF p4 # NULL THEN {p4} ELSE {})
          \cup (IF RightIsFree(hp3, p4)
                THEN {p4 - WordSize}
                       \cup fwd_coalesce_words(hp3,
                                get_header(hp3, p4 - WordSize))
                ELSE {})

\* The four bytes of the word at a lie in [mem, end).
InPool(a) == a >= mem /\ a + WordSize <= end

(***************************************************************************)
(* C12  Arena bounds: in every reachable state, every word that myalloc of *)
(* any size 1 .. MaxRequest, or myfree of any pointer the caller holds,    *)
(* reads or writes lies inside [mem, end); so did every word the last      *)
(* call read or wrote.                                                     *)
(***************************************************************************)
C12_ArenaBounds ==
    /\ \A size \in 1 .. MaxRequest :
           \A a \in myalloc_words(heap, size) : InPool(a)
    /\ \A p \in DOMAIN live :
           \A a \in myfree_words(heap, p) : InPool(a)
    /\ last.op = "myalloc" =>
           \A a \in myalloc_words(last.heap, last.arg) : InPool(a)
    /\ Freed => \A a \in myfree_words(last.heap, last.arg) : InPool(a)

\* The first block of the pool was freed and merged with its right
\* neighbour, the last block: the call met both ends of the pool.
C12_Witness ==
    /\ Freed
    /\ last.arg - WordSize = mem
    /\ Layout(heap) = <<<<mem, MEMORY_SIZE, MEMORY_SIZE>>>>
    /\ Len(Blocks(last.heap)) = 2
    /\ live = <<>>

(***************************************************************************)
(* C13  myalloc returns the null pointer if and only if no block of the    *)
(* pool is free and of at least size + 2 words.                            *)
(***************************************************************************)
C13_FailsIffNoCandidate ==
    last.op = "myalloc" =>
        (last.result = NULL <=>
            ~\E i \in 1 .. Len(Blocks(last.heap)) :
                LET tag == Load(last.heap, Blocks(last.heap)[i])
                IN  tag > 0 /\ tag - 2 * WordSize >= last.arg)

\* A request served by the only block that fits, of exactly size + 2 words.
C13_Witness ==
    /\ Allocated
    /\ Candidates(last.heap, last.arg) = {last.result - WordSize}
    /\ Load(last.heap, last.result - WordSize) = last.arg + 2 * WordSize
    /\ Len(Blocks(heap)) >= 3

(***************************************************************************)
(* C14  Result of a split: the block at h is allocated with size + 2 words *)
(* in header and footer, the block right after it is free with the rest of *)
(* the original size in header and footer and ends where the original      *)
(* block ended, and every other block is as before.                        *)
(***************************************************************************)
C14_SplitResult ==
    (Allocated /\ Load(last.heap, last.result - WordSize)
                      >= last.arg + 4 * WordSize) =>
        LET h    == last.result - WordSize
            orig == Load(last.heap, h)
            mine == last.arg + 2 * WordSize
            Old  == Layout(last.heap)
            New  == Layout(heap)
            k    == CHOOSE i \in 1 .. Len(Old) : Old[i][1] = h
        IN  /\ Len(New) = Len(Old) + 1
            /\ New[k] = <<h, -mine, -mine>>
            /\ New[k + 1] = <<h + mine, orig - mine, orig - mine>>
            /\ h + mine + (orig - mine) = h + orig
            /\ \A i \in 1 .. k - 1 : New[i] = Old[i]
            /\ \A i \in k + 1 .. Len(Old) : New[i + 1] = Old[i]

\* A free block after two allocated blocks was split.
C14_Witness ==
    /\ Allocated
    /\ SplitDone
    /\ last.result - WordSize # mem
    /\ Len(Blocks(heap)) >= 4

(***************************************************************************)
(* C15  Result of myfree: the freed block, its left neighbour if that was  *)
(* free and its right neighbour if that was free become one free block,    *)
(* which starts at the first of them, ends where the last of them ended,   *)
(* and carries the sum of their sizes, positive, in header and footer;     *)
(* the blocks before and after it are as before.                           *)
(***************************************************************************)
C15_FreeResult ==
    Freed =>
        LET h     == last.arg - WordSize
            Old   == Layout(last.heap)
            New   == Layout(heap)
            k     == CHOOSE i \in 1 .. Len(Old) : Old[i][1] = h
            left  == k > 1 /\ Old[k - 1][2] > 0
            right == k < Len(Old) /\ Old[k + 1][2] > 0
            lo    == IF left THEN k - 1 ELSE k
            hi    == IF right THEN k + 1 ELSE k
            total == abs(Old[k][2])
                       + (IF left THEN Old[k - 1][2] ELSE 0)
                       + (IF right THEN Old[k + 1][2] ELSE 0)
        IN  /\ IsHeader(last.heap, h)
            /\ Len(New) = Len(Old) - (hi - lo)
            /\ New[lo] = <<Old[lo][1], total, total>>
            /\ Old[lo][1] + total = Old[hi][1] + abs(Old[hi][2])
            /\ \A i \in 1 .. lo - 1 : New[i] = Old[i]
            /\ \A i \in hi + 1 .. Len(Old) : New[i - (hi - lo)] = Old[i]

\* A block was freed between two free neighbours, next to a block the
\* caller still holds.
C15_Witness ==
    /\ Freed
    /\ Len(Blocks(heap)) = Len(Blocks(last.heap)) - 2
    /\ Len(Blocks(heap)) >= 2
    /\ live # <<>>

(***************************************************************************)
(* C16  Tie-breaking: no free block that fits, has the same size as the    *)
(* block myalloc takes and lies at a lower address exists; the block taken *)
(* is the lowest-addressed of the smallest blocks that fit.                *)
(***************************************************************************)
C16_LowestAddressOnTie ==
    Allocated =>
        LET h    == last.result - WordSize
            Fits == {Blocks(last.heap)[i] : i \in 1 .. Len(Blocks(last.heap))}
            Min  == {g \in Fits :
                        /\ Load(last.heap, g) > 0
                        /\ Load(last.heap, g) - 2 * WordSize >= last.arg
                        /\ Load(last.heap, g) <= Load(last.heap, h)}
        IN  \A g \in Min : g >= h

\* Two free blocks of the same size both fit, and the first was taken.
C16_Witness ==
    /\ Allocated
    /\ \E g \in Candidates(last.heap, last.arg) :
          /\ g > last.result - WordSize
          /\ Load(last.heap, g) = Load(last.heap, last.result - WordSize)

(***************************************************************************)
(* C17  As claimed, for every request size up to INT_MAX: a request that   *)
(* no free block can hold (none of at least size + 2 words) returns the    *)
(* null pointer, and a pointer returned addresses a block with at least    *)
(* size usable bytes.                                                      *)
(***************************************************************************)
C17_OversizedRequestFails ==
    last.op = "myalloc" =>
        /\ Candidates(last.heap, last.arg) = {} => last.result = NULL
        /\ last.result # NULL =>
               abs(Load(heap, last.result - WordSize)) - 2 * WordSize
                   >= last.arg

(***************************************************************************)
(* C18  Live allocations never overlap: the byte ranges [p, p + size) of   *)
(* the pointers the caller holds lie in the pool, are pairwise disjoint    *)
(* and contain no byte of any block's header or footer word; and myalloc   *)
(* returns no pointer the caller already holds.                            *)
(***************************************************************************)
\* The word at a has no byte in [p, p + live[p]).
WordOutside(a, p) == a + WordSize <= p \/ a - p >= live[p]

C18_LiveDisjoint ==
    /\ \A p \in DOMAIN live :
          /\ p >= mem + WordSize
          /\ end - p >= live[p]
          /\ \A q \in DOMAIN live : p < q => q - p >= live[p]
          /\ \A i \in 1 .. Len(Blocks(heap)) :
                /\ WordOutside(Blocks(heap)[i], p)
                /\ WordOutside(get_footer(heap, Blocks(heap)[i]), p)
    /\ Allocated => last.result \notin DOMAIN last.live

(***************************************************************************)
(* The block list read backwards: from the footer that ends the pool, by   *)
(* get_header, then from the word before each header found.  It is cut     *)
(* after MEMORY_SIZE blocks.                                               *)
(***************************************************************************)
RECURSIVE BackFrom(_, _, _)
BackFrom(hp, footer, n) ==
    IF n = 0 \/ footer < mem THEN <<>>
    ELSE LET header == get_header(hp, footer)
         IN  IF header <= mem \/ header > footer
             THEN <<header>>
             ELSE BackFrom(hp, header - WordSize, n - 1) \o <<header>>

BlocksBackward(hp) == BackFrom(hp, end - WordSize, MEMORY_SIZE)

(***************************************************************************)
(* C19  The scan of best_fit_block terminates: from mem, each step moves   *)
(* to a strictly higher address by a strictly positive block size, the     *)
(* step after the last block gives the "no next block" sentinel, and the   *)
(* headers visited are exactly the blocks of the pool (those that the      *)
(* footers delimit, read backwards from end), each once.                   *)
(***************************************************************************)
C19_ScanTerminates ==
    LET W == Blocks(heap)
        n == Len(W)
    IN  /\ n >= 1
        /\ n < MEMORY_SIZE
        /\ \A i \in 1 .. n : abs(Load(heap, W[i])) > 0
        /\ \A i \in 1 .. n - 1 : W[i] < W[i + 1]
        /\ \A i \in 1 .. n : W[i] >= mem /\ W[i] < end
        /\ get_next_header(heap, W[n]) = NULL
        /\ W = BlocksBackward(heap)

\* myalloc has scanned a pool of four blocks.
C19_Witness ==
    /\ last.op = "myalloc"
    /\ Len(Blocks(last.heap)) = 4
    /\ BlocksBackward(last.heap) = Blocks(last.heap)

\* ---------------------------------------------------------------------------
\* Two threads calling myalloc on the same pool.  The code takes no lock and
\* has no atomic access, so a call is a sequence of steps, each reading or
\* writing at most one tag word of the shared pool; the steps of the two
\* threads interleave freely unless the callers put one lock around each
\* whole call.
\* ---------------------------------------------------------------------------

\* The lock the callers may put around a call: a thread enters only when no
\* thread holds the lock, holds it for the whole call and gives it up when
\* the call returns.  Callers that use no lock always enter.
MayEnter(t) == lock.used => lock.owner = 0

Acquire(t) == lock' = IF lock.used THEN [lock EXCEPT !.owner = t] ELSE lock

Release(t) == lock' = IF lock.used THEN [lock EXCEPT !.owner = 0] ELSE lock

\* One step of thread t that reads or writes the word at address a: the
\* thread's locals become rec and the pool becomes hp.  A word outside the
\* pool is outside every object of the program, the access is undefined and
\* nothing is said about the thread afterwards.
Access(t, a, rec, hp) ==
    /\ IF InPool(a)
       THEN thread' = [thread EXCEPT ![t] = rec] /\ heap' = hp
       ELSE thread' = [thread EXCEPT ![t].pc = "fault"] /\ heap' = heap
    /\ UNCHANGED <<MEMORY_SIZE, mem, end, live, last, calls, lock>>

\* A step of thread t that touches its locals only.
Local(t, rec) ==
    /\ thread' = [thread EXCEPT ![t] = rec]
    /\ UNCHANGED <<MEMORY_SIZE, mem, end, heap, live, last, calls, lock>>

\* myalloc(size) is entered; best_fit_block starts at the first header with
\* no result.
T_Call(t, size) ==
    /\ thread[t].pc = "idle"
    /\ MayEnter(t)
    /\ Acquire(t)
    /\ thread' = [thread EXCEPT ![t] =
                      [Idle EXCEPT !.pc = "scan", !.size = size,
                                   !.header = mem]]
    /\ UNCHANGED <<MEMORY_SIZE, mem, end, heap, live, last, calls>>

\* The loop test of best_fit_block and the test of the block at header for
\* state and size; the first eligible block becomes the result at once.
T_Scan(t) ==
    LET me == thread[t]
    IN  /\ me.pc = "scan"
        /\ IF me.header = NULL
           THEN Local(t, [me EXCEPT !.pc = "found"])
           ELSE Access(t, me.header,
                    IF ~Eligible(heap, me.header, me.size)
                    THEN [me EXCEPT !.pc = "next"]
                    ELSE IF me.result = NULL
                         THEN [me EXCEPT !.pc = "next", !.result = me.header]
                         ELSE [me EXCEPT !.pc = "cmp_header"],
                    heap)

\* The comparison with the result so far: the size at header is read ...
T_CmpHeader(t) ==
    LET me == thread[t]
    IN  /\ me.pc = "cmp_header"
        /\ Access(t, me.header,
                  [me EXCEPT !.pc = "cmp_result",
                             !.v = abs(Load(heap, me.header))],
                  heap)

\* ... then the size at the result, and the smaller block is kept.
T_CmpResult(t) ==
    LET me == thread[t]
    IN  /\ me.pc = "cmp_result"
        /\ Access(t, me.result,
                  IF me.v < abs(Load(heap, me.result))
                  THEN [me EXCEPT !.pc = "next", !.result = me.header]
                  ELSE [me EXCEPT !.pc = "next"],
                  heap)

\* The scan moves to the next header.
T_Next(t) ==
    LET me == thread[t]
    IN  /\ me.pc = "next"
        /\ Access(t, me.header,
                  [me EXCEPT !.pc = "scan",
                             !.header = get_next_header(heap, me.header)],
                  heap)

\* best_fit_block has returned: myalloc fails with no block, else it keeps
\* the block's header.
T_Found(t) ==
    LET me == thread[t]
    IN  /\ me.pc = "found"
        /\ thread' = [thread EXCEPT ![t] =
                          IF me.result = NULL
                          THEN [me EXCEPT !.pc = "done", !.ret = NULL]
                          ELSE [me EXCEPT !.pc = "split_test",
                                          !.header = me.result,
                                          !.old_header = me.result]]
        /\ IF me.result = NULL THEN Release(t) ELSE lock' = lock
        /\ UNCHANGED <<MEMORY_SIZE, mem, end, heap, live, last, calls>>

\* The split test reads the block's header.
T_SplitTest(t) ==
    LET me == thread[t]
    IN  /\ me.pc = "split_test"
        /\ Access(t, me.header,
                  [me EXCEPT !.pc = IF SplitTest(heap, me.header, me.size)
                                    THEN "split_orig" ELSE "flip_read"],
                  heap)

\* Split: the block's size is read, ...
T_SplitOrig(t) ==
    LET me == thread[t]
    IN  /\ me.pc = "split_orig"
        /\ Access(t, me.header,
                  [me EXCEPT !.pc = "split_header",
                             !.orig_size = abs(Load(heap, me.header))],
                  heap)

\* ... the header of the allocated part is written, ...
T_SplitHeader(t) ==
    LET me == thread[t]
    IN  /\ me.pc = "split_header"
        /\ Access(t, me.header, [me EXCEPT !.pc = "split_footer"],
                  Store(heap, me.header, -(me.size + 2 * WordSize)))

\* ... its footer is found from the header, ...
T_SplitFooter(t) ==
    LET me == thread[t]
    IN  /\ me.pc = "split_footer"
        /\ Access(t, me.header,
                  [me EXCEPT !.pc = "split_footer_write",
                             !.header = get_footer(heap, me.header)],
                  heap)

\* ... and written, and the pointer moves on to the remainder, ...
T_SplitFooterWrite(t) ==
    LET me == thread[t]
    IN  /\ me.pc = "split_footer_write"
        /\ Access(t, me.header,
                  [me EXCEPT !.pc = "split_rest",
                             !.header = me.header + WordSize],
                  Store(heap, me.header, -(me.size + 2 * WordSize)))

\* ... whose header is written, ...
T_SplitRest(t) ==
    LET me == thread[t]
    IN  /\ me.pc = "split_rest"
        /\ Access(t, me.header, [me EXCEPT !.pc = "split_rest_footer"],
                  Store(heap, me.header, Remainder(me.orig_size, me.size)))

\* ... whose footer is found from that header ...
T_SplitRestFooter(t) ==
    LET me == thread[t]
    IN  /\ me.pc = "split_rest_footer"
        /\ Access(t, me.header,
                  [me EXCEPT !.pc = "split_rest_footer_write",
                             !.header = get_footer(heap, me.header)],
                  heap)

\* ... and written.
T_SplitRestFooterWrite(t) ==
    LET me == thread[t]
    IN  /\ me.pc = "split_rest_footer_write"
        /\ Access(t, me.header, [me EXCEPT !.pc = "return"],
                  Store(heap, me.header, Remainder(me.orig_size, me.size)))

\* No split: the header is read ...
T_FlipRead(t) ==
    LET me == thread[t]
    IN  /\ me.pc = "flip_read"
        /\ Access(t, me.header,
                  [me EXCEPT !.pc = "flip_write",
                             !.v = Load(heap, me.header)],
                  heap)

\* ... and written back with the other sign, ...
T_FlipWrite(t) ==
    LET me == thread[t]
    IN  /\ me.pc = "flip_write"
        /\ Access(t, me.header, [me EXCEPT !.pc = "flip_footer"],
                  Store(heap, me.header, -me.v))

\* ... the footer is found from the header, ...
T_FlipFooter(t) ==
    LET me == thread[t]
    IN  /\ me.pc = "flip_footer"
        /\ Access(t, me.header,
                  [me EXCEPT !.pc = "flip_footer_read",
                             !.header = get_footer(heap, me.header)],
                  heap)

\* ... read ...
T_FlipFooterRead(t) ==
    LET me == thread[t]
    IN  /\ me.pc = "flip_footer_read"
        /\ Access(t, me.header,
                  [me EXCEPT !.pc = "flip_footer_write",
                             !.v = Load(heap, me.header)],
                  heap)

\* ... and written back with the other sign.
T_FlipFooterWrite(t) ==
    LET me == thread[t]
    IN  /\ me.pc = "flip_footer_write"
        /\ Access(t, me.header, [me EXCEPT !.pc = "return"],
                  Store(heap, me.header, -me.v))

\* myalloc returns the address after the block's header.
T_Return(t) ==
    LET me == thread[t]
    IN  /\ me.pc = "return"
        /\ thread' = [thread EXCEPT ![t] =
                          [me EXCEPT !.pc = "done",
                                     !.ret = me.old_header + WordSize]]
        /\ Release(t)
        /\ UNCHANGED <<MEMORY_SIZE, mem, end, heap, live, last, calls>>

\* The pool hp after myalloc(size), myalloc(1) and myfree of the first
\* block is the pool out: a free block, an allocated block, the free rest.
PoolWithHole(hp, size, out) ==
    \E first \in {myalloc(hp, size)} :
        \E second \in {myalloc(first.heap, 1)} :
            out = myfree(second.heap, first.result)

\* Two threads that each call myalloc once, on the pool after init_myalloc
\* or on a pool with a hole, and callers that either use the lock or do not.
InitThreads ==
    /\ MEMORY_SIZE = Capacity
    /\ mem = PoolAddress
    /\ end = mem + MEMORY_SIZE
    /\ \E fill \in Garbage : \E hole \in 0 .. MaxRequest :
           \E hp \in {init_myalloc(mem, MEMORY_SIZE, fill)} :
               IF hole = 0 THEN heap = hp ELSE PoolWithHole(hp, hole, heap)
    /\ live = <<>>
    /\ last = [op |-> "init_myalloc", arg |-> MEMORY_SIZE, result |-> NULL,
               heap |-> heap, live |-> live, fresh |-> FALSE]
    /\ calls = 0
    /\ thread = [t \in Threads |-> Idle]
    /\ \E used \in BOOLEAN : lock = [used |-> used, owner |-> 0]

NextThreads ==
    \/ \E t \in Threads : \E size \in 1 .. MaxRequest : T_Call(t, size)
    \/ \E t \in Threads : T_Scan(t)
    \/ \E t \in Threads : T_CmpHeader(t)
    \/ \E t \in Threads : T_CmpResult(t)
    \/ \E t \in Threads : T_Next(t)
    \/ \E t \in Threads : T_Found(t)
    \/ \E t \in Threads : T_SplitTest(t)
    \/ \E t \in Threads : T_SplitOrig(t)
    \/ \E t \in Threads : T_SplitHeader(t)
    \/ \E t \in Threads : T_SplitFooter(t)
    \/ \E t \in Threads : T_SplitFooterWrite(t)
    \/ \E t \in Threads : T_SplitRest(t)
    \/ \E t \in Threads : T_SplitRestFooter(t)
    \/ \E t \in Threads : T_SplitRestFooterWrite(t)
    \/ \E t \in Threads : T_FlipRead(t)
    \/ \E t \in Threads : T_FlipWrite(t)
    \/ \E t \in Threads : T_FlipFooter(t)
    \/ \E t \in Threads : T_FlipFooterRead(t)
    \/ \E t \in Threads : T_FlipFooterWrite(t)
    \/ \E t \in Threads : T_Return(t)

SpecThreads == InitThreads /\ [][NextThreads]_vars

\* No call is in progress.
Quiescent == \A t \in Threads : thread[t].pc \in {"idle", "done"}

\* Thread t's call returned a block of the pool that is allocated and holds
\* the payload asked for.
OwnsBlock(t) ==
    LET header == thread[t].ret - WordSize
    IN  /\ IsHeader(heap, header)
        /\ Load(heap, header) < 0
        /\ abs(Load(heap, header)) - 2 * WordSize >= thread[t].size

\* C20: the guarantees hold when each call runs as a whole under one lock
\* (between calls the blocks tile the pool with mirrored tags, no thread
\* made an undefined access, and the pointers returned are distinct
\* allocated blocks large enough for their requests); calls that interleave
\* at single tag-word reads and writes reach a state without them.
C20_SerializedCallsSafe ==
    lock.used =>
        /\ \A t \in Threads : thread[t].pc # "fault"
        /\ (lock.owner # 0) <=> ~Quiescent
        /\ \A t \in Threads :
               thread[t].pc \notin {"idle", "done"} => lock.owner = t
        /\ Quiescent =>
              /\ C1_Tiling
              /\ C11_MirroredTags
              /\ \A t \in Threads :
                     (thread[t].pc = "done" /\ thread[t].ret # NULL) =>
                         OwnsBlock(t)
              /\ \A t, u \in Threads :
                     (/\ t # u
                      /\ thread[t].pc = "done" /\ thread[u].pc = "done"
                      /\ thread[t].ret # NULL) =>
                         thread[t].ret # thread[u].ret

\* Without the lock both calls return the same payload pointer.
C20_Witness ==
    /\ ~lock.used
    /\ \A t \in Threads : thread[t].pc = "done"
    /\ thread[1].ret # NULL
    /\ thread[1].ret = thread[2].ret

=============================================================================
